---- MODULE Spec2Model ----
(***************************************************************************)
(* Verification model of the CUDA/Numba tutorial notebooks.                *)
(*                                                                         *)
(* A kernel launch kernel[gridDim, blockDim](args) starts gridDim*blockDim *)
(* threads that all run the kernel body.  Threads are scheduled in any     *)
(* order, so every thread is a process whose steps are the memory accesses *)
(* of the body: a plain `a[k] += 1` is a load followed by a store, while   *)
(* cuda.atomic.add is one indivisible step.                                *)
(*                                                                         *)
(* Float32 samples are modelled by integers (the kernels only add them or  *)
(* bin them); np.int32(q) is modelled as truncation toward zero of the     *)
(* exact quotient.                                                         *)
(***************************************************************************)
EXTENDS Integers, Sequences, FiniteSets, TLC

VARIABLES
    kernel,          \* name of the kernel function that was launched
    gridDim,         \* cuda.gridDim.x  : blocks in the grid
    blockDim,        \* cuda.blockDim.x : threads per block
    pc,              \* per thread: position in the kernel body
    i,               \* per thread: loop variable i / x_idx of the kernel body
    reg,             \* per thread: value loaded by a non-atomic update
    global_counter,  \* global_counter[0]
    x,               \* input array x (x_device)
    y,               \* input array y (y_device)
    out,             \* output array out (out_device)
    xmin,            \* histogram range, lower edge
    xmax,            \* histogram range, upper edge
    histogram_out,   \* bin counts
    writes,          \* history: per element of out, the threads that stored to it, in order
    accesses,        \* history: per thread, number of array elements it has accessed
    hpc,             \* host program: the statement it is at (or the call it last returned from)
    queue,           \* operations issued to the device and not yet completed, oldest first
    executing,       \* id of the queued kernel whose threads are running (0: none)
    kdone,           \* threads of the running increment_kernel that have finished
    launched,        \* history: number of kernels launched
    completed,       \* history: number of kernels completed
    atReturn,        \* history: <<call, "pending" | "complete">>, the state of a call's
                     \* operation at the moment the call returned to the host
    a,               \* host array a (pinned), or the array a copy_to_host() returned
    d_a,             \* device array d_a
    startEv,         \* event start: "unrecorded", "pending" or "complete"
    stopEv,          \* event stop
    counter,         \* counter of the Stage 2 loop
    A,               \* host array A of the reduction example
    A_d,             \* device array A_d = cuda.to_device(A) ("none" before it exists)
    r,               \* r[0] of the device array r ("none": not written yet)
    partials,        \* partial results of the running reduction kernel
    retval,          \* value returned by the last sum_reduce call ("none": nothing)
    mem,             \* device memory: pointer -> contents of the buffer at it
    x_numba,         \* pointer held by the Numba device array x_numba (0: not created)
    x_cupy,          \* pointer held by the CuPy array x_cupy (0: not created)
    means,           \* the sums x_cupy.mean() was computed from, in call order
    objs,            \* MyFloatArray instances: id -> record
    heap,            \* device pointers currently allocated by cudaMalloc
    calls,           \* history: the cudaMalloc / cudaFree calls made, in order
    waveform,        \* int16 samples passed to zero_suppress
    threshold,       \* threshold passed to zero_suppress
    result           \* array returned by zero_suppress ("none" before the call)

vars == <<kernel, gridDim, blockDim, pc, i, reg, global_counter, x, y, out,
          xmin, xmax, histogram_out, writes, accesses, hpc, queue, executing,
          kdone, launched, completed, atReturn, a, d_a, startEv, stopEv, counter,
          A, A_d, r, partials, retval, mem, x_numba, x_cupy, means,
          objs, heap, calls, waveform, threshold, result>>

launchVars == <<kernel, gridDim, blockDim>>
counterVars == <<global_counter>>
addVars == <<x, y, out, writes, accesses>>
histVars == <<xmin, xmax, histogram_out>>
queueVars == <<queue, executing, kdone, launched, completed>>
streamVars == <<a, d_a, startEv, stopEv, counter>>
reduceVars == <<A, A_d, r, partials, retval>>
viewVars == <<mem, x_numba, x_cupy, means>>
allocVars == <<objs, heap, calls>>
ufuncVars == <<waveform, threshold, result>>
extVars == <<reduceVars, viewVars, allocVars, ufuncVars>>
hostVars == <<hpc, queueVars, atReturn, streamVars, extVars>>
kernelVars == <<launchVars, pc, i, reg, counterVars, addVars, histVars>>

----------------------------------------------------------------------------
(* Bounds of the model *)

\* largest number of threads in a launch (gridDim * blockDim)
MaxGridSize == 4

\* largest length of an input array
MaxLen == 3

----------------------------------------------------------------------------
(* The thread grid *)

\* A thread is <<cuda.blockIdx.x, cuda.threadIdx.x>>.
Threads == (0 .. gridDim - 1) \X (0 .. blockDim - 1)

\* cuda.grid(1): tx + ty * block_size
grid_mut(t) == t[2]

grid(t) == t[2] + t[1] * blockDim

\* cuda.gridsize(1): block_size * grid_size
gridsize_mut == blockDim

gridsize == blockDim * gridDim

\* kernel[gridDim, blockDim](...): at least one block of at least one thread
LaunchConfig ==
    /\ gridDim \in 1 .. MaxGridSize
    /\ blockDim \in 1 .. MaxGridSize
    /\ gridDim * blockDim <= MaxGridSize

\* the state of the examples that the cell does not run
NoReduce ==
    /\ A = <<>>
    /\ A_d = "none"
    /\ r = "none"
    /\ partials = <<>>
    /\ retval = "none"

NoView ==
    /\ mem = <<>>
    /\ x_numba = 0
    /\ x_cupy = 0
    /\ means = <<>>

NoAlloc ==
    /\ objs = <<>>
    /\ heap = {}
    /\ calls = <<>>

NoUfunc ==
    /\ waveform = <<>>
    /\ threshold = 0
    /\ result = "none"

NoExtras == NoReduce /\ NoView /\ NoAlloc /\ NoUfunc

\* the cell only launches one kernel: no host program, nothing else queued
NoHostProgram ==
    /\ hpc = "none"
    /\ queue = <<>>
    /\ executing = 0
    /\ kdone = {}
    /\ launched = 1
    /\ completed = 0
    /\ atReturn = {}
    /\ a = <<>>
    /\ d_a = <<>>
    /\ startEv = "unrecorded"
    /\ stopEv = "unrecorded"
    /\ counter = 0
    /\ NoExtras

AllDone == \A t \in Threads : pc[t] = "done"

----------------------------------------------------------------------------
(* thread_counter_race_condition and thread_counter_safe *)

\* global_counter[0] += 1, first half: load global_counter[0]
RaceRead(t) ==
    /\ kernel = "thread_counter_race_condition"
    /\ pc[t] = "start"
    /\ reg' = [reg EXCEPT ![t] = global_counter]
    /\ pc' = [pc EXCEPT ![t] = "loaded"]
    /\ UNCHANGED <<hostVars, launchVars, i, counterVars, addVars, histVars>>

\* the value stored by global_counter[0] += 1
Incremented_mut(v) == v

Incremented(v) == v + 1

\* global_counter[0] += 1, second half: store counter + 1
RaceWrite(t) ==
    /\ kernel = "thread_counter_race_condition"
    /\ pc[t] = "loaded"
    /\ global_counter' = Incremented(reg[t])
    /\ pc' = [pc EXCEPT ![t] = "done"]
    /\ UNCHANGED <<hostVars, launchVars, i, reg, addVars, histVars>>

\* a thread_counter_safe whose add is a load and a separate store
thread_counter_safe_mut(t) ==
    \/ /\ kernel = "thread_counter_safe"
       /\ pc[t] = "start"
       /\ reg' = [reg EXCEPT ![t] = global_counter]
       /\ pc' = [pc EXCEPT ![t] = "loaded"]
       /\ UNCHANGED <<hostVars, launchVars, i, counterVars, addVars, histVars>>
    \/ /\ kernel = "thread_counter_safe"
       /\ pc[t] = "loaded"
       /\ global_counter' = reg[t] + 1
       /\ pc' = [pc EXCEPT ![t] = "done"]
       /\ UNCHANGED <<hostVars, launchVars, i, reg, addVars, histVars>>

\* cuda.atomic.add(global_counter, 0, 1): one indivisible read-modify-write
thread_counter_safe(t) ==
    /\ kernel = "thread_counter_safe"
    /\ pc[t] = "start"
    /\ global_counter' = global_counter + 1
    /\ pc' = [pc EXCEPT ![t] = "done"]
    /\ UNCHANGED <<hostVars, launchVars, i, reg, addVars, histVars>>

\* global_counter = cuda.to_device(np.array([0])); kernel[B, T](global_counter)
CounterInit ==
    /\ kernel \in {"thread_counter_race_condition", "thread_counter_safe"}
    /\ LaunchConfig
    /\ NoHostProgram
    /\ pc = [t \in Threads |-> "start"]
    /\ i = [t \in Threads |-> 0]
    /\ reg = [t \in Threads |-> 0]
    /\ global_counter = 0
    /\ x = <<>>
    /\ y = <<>>
    /\ out = <<>>
    /\ writes = <<>>
    /\ accesses = [t \in Threads |-> 0]
    /\ xmin = 0
    /\ xmax = 0
    /\ histogram_out = <<>>

CounterNext ==
    \/ \E t \in Threads : RaceRead(t)
    \/ \E t \in Threads : RaceWrite(t)
    \/ \E t \in Threads : thread_counter_safe(t)

SpecCounter == CounterInit /\ [][CounterNext]_vars

----------------------------------------------------------------------------
(* add_kernel (and add of the porting notebook): the grid-stride loop *)

\* sample values of the input arrays, and what np.empty_like may hold
XVals == {1, 2}

YVals == {10, 20}

OutGarbage == {-1, 11}

\* for i in range(start, x.shape[0], stride): out[i] = x[i] + y[i]
\* (arrays are 1-based here: element i of the code is element i + 1)
AddIterate(t) ==
    /\ kernel = "add_kernel"
    /\ pc[t] = "loop"
    /\ i[t] < Len(x)
    /\ out' = [out EXCEPT ![i[t] + 1] = x[i[t] + 1] + y[i[t] + 1]]
    /\ writes' = [writes EXCEPT ![i[t] + 1] = Append(@, t)]
    /\ accesses' = [accesses EXCEPT ![t] = @ + 3]
    /\ i' = [i EXCEPT ![t] = @ + gridsize]
    /\ UNCHANGED <<hostVars, launchVars, pc, reg, counterVars, x, y, histVars>>

\* the range is exhausted (or was empty from the start): the thread returns
AddExit(t) ==
    /\ kernel = "add_kernel"
    /\ pc[t] = "loop"
    /\ i[t] >= Len(x)
    /\ pc' = [pc EXCEPT ![t] = "done"]
    /\ UNCHANGED <<hostVars, launchVars, i, reg, counterVars, addVars, histVars>>

\* x, y of equal length n; out = np.empty_like(x); add_kernel[B, T](x, y, out)
AddInit ==
    /\ kernel = "add_kernel"
    /\ LaunchConfig
    /\ NoHostProgram
    /\ \E n \in 0 .. MaxLen :
        /\ x \in [1 .. n -> XVals]
        /\ y \in [1 .. n -> YVals]
        /\ \E g \in OutGarbage : out = [k \in 1 .. n |-> g]
        /\ writes = [k \in 1 .. n |-> <<>>]
    /\ pc = [t \in Threads |-> "loop"]
    /\ i = [t \in Threads |-> grid(t)]
    /\ reg = [t \in Threads |-> 0]
    /\ accesses = [t \in Threads |-> 0]
    /\ global_counter = 0
    /\ xmin = 0
    /\ xmax = 0
    /\ histogram_out = <<>>

AddNext ==
    \/ \E t \in Threads : AddIterate(t)
    \/ \E t \in Threads : AddExit(t)

SpecAdd == AddInit /\ [][AddNext]_vars

----------------------------------------------------------------------------
(* cpu_histogram and cuda_histogram *)

\* sample values, histogram ranges [xmin, xmax) and bin counts
XHistVals == {-5, -3, 0, 4}

HistRanges == {<<-4, 4>>, <<0, 3>>}

NBinsChoices == {2, 10}

\* np.int32(q) of the quotient num / den, den > 0: truncation toward zero
TruncDiv(num, den) == IF num >= 0 THEN num \div den ELSE -((-num) \div den)

\* bin_width = (xmax - xmin) / nbins; np.int32((element - xmin) / bin_width)
BinNumber(element, lo, hi, nbins) == TruncDiv((element - lo) * nbins, hi - lo)

\* if bin_number >= 0 and bin_number < histogram_out.shape[0]
BinInRange(b, nbins) == b >= 0 /\ b < nbins

RECURSIVE cpu_histogram_from(_, _, _, _, _)
\* the loop `for element in x` of cpu_histogram, from element k on
cpu_histogram_from(k, xs, lo, hi, h) ==
    IF k > Len(xs) THEN h
    ELSE LET b == BinNumber(xs[k], lo, hi, Len(h))
         IN  cpu_histogram_from(k + 1, xs, lo, hi,
                 IF BinInRange(b, Len(h)) THEN [h EXCEPT ![b + 1] = @ + 1] ELSE h)

cpu_histogram(xs, lo, hi, h) == cpu_histogram_from(1, xs, lo, hi, h)

\* nblocks = x.shape[0] // nthread + 1
nblocks_mut(n, nthread) == n \div nthread

nblocks(n, nthread) == n \div nthread + 1

\* x_idx = cuda.grid(1); if x_idx < x.shape[0]: ... cuda.atomic.add(histogram_out, bin_number, 1)
cuda_histogram(t) ==
    /\ kernel = "cuda_histogram"
    /\ pc[t] = "start"
    /\ i' = [i EXCEPT ![t] = grid(t)]
    /\ LET x_idx == grid(t)
           bin_number == BinNumber(x[x_idx + 1], xmin, xmax, Len(histogram_out))
       IN  histogram_out' =
               IF x_idx < Len(x) /\ BinInRange(bin_number, Len(histogram_out))
               THEN [histogram_out EXCEPT ![bin_number + 1] = @ + 1]
               ELSE histogram_out
    /\ pc' = [pc EXCEPT ![t] = "done"]
    /\ UNCHANGED <<hostVars, launchVars, reg, counterVars, addVars, xmin, xmax>>

\* histogram_out_jit = np.zeros(nbins); cuda_histogram[nblocks, nthread](x, xmin, xmax, histogram_out_jit)
CudaHistogramInit ==
    /\ kernel = "cuda_histogram"
    /\ NoHostProgram
    /\ \E n \in 0 .. MaxLen :
        /\ x \in [1 .. n -> XHistVals]
        /\ blockDim \in 1 .. MaxLen + 1
        /\ gridDim = nblocks(n, blockDim)
    /\ \E rng \in HistRanges : xmin = rng[1] /\ xmax = rng[2]
    /\ \E nbins \in NBinsChoices : histogram_out = [b \in 1 .. nbins |-> 0]
    /\ pc = [t \in Threads |-> "start"]
    /\ i = [t \in Threads |-> 0]
    /\ reg = [t \in Threads |-> 0]
    /\ accesses = [t \in Threads |-> 0]
    /\ global_counter = 0
    /\ y = <<>>
    /\ out = <<>>
    /\ writes = <<>>

CudaHistogramNext == \E t \in Threads : cuda_histogram(t)

SpecCudaHistogram == CudaHistogramInit /\ [][CudaHistogramNext]_vars

----------------------------------------------------------------------------
(* histogram of the debugging notebook: a grid-stride loop over x.  The
   notebook shows the kernel with cuda.atomic.add and names the line of
   debug/ex1.py it replaces, histogram_out[bin_number] += 1; both are
   modelled, as kernels "histogram" and "histogram_nonatomic".  The
   set_trace() hook of the first thread changes no kernel state. *)

\* np.int32((x[i] + xmin) / bin_width): this kernel adds xmin
BinNumberDebug(element, lo, hi, nbins) == TruncDiv((element + lo) * nbins, hi - lo)

\* whether kernel k updates its bin with cuda.atomic.add
AtomicUpdate_mut(k) == FALSE

AtomicUpdate(k) == k = "histogram"

IsDebugHistogram == kernel \in {"histogram", "histogram_nonatomic"}

\* bin number the thread computes for the current element x[i]
CurrentBin(t) == BinNumberDebug(x[i[t] + 1], xmin, xmax, Len(histogram_out))

\* one loop iteration whose update is cuda.atomic.add(histogram_out, bin_number, 1)
HistIterateAtomic(t) ==
    /\ IsDebugHistogram
    /\ AtomicUpdate(kernel)
    /\ pc[t] = "loop"
    /\ i[t] < Len(x)
    /\ histogram_out' =
           IF BinInRange(CurrentBin(t), Len(histogram_out))
           THEN [histogram_out EXCEPT ![CurrentBin(t) + 1] = @ + 1]
           ELSE histogram_out
    /\ i' = [i EXCEPT ![t] = @ + gridsize]
    /\ UNCHANGED <<hostVars, launchVars, pc, reg, counterVars, addVars, xmin, xmax>>

\* histogram_out[bin_number] += 1, first half: the bin is in range, load it
HistLoad(t) ==
    /\ IsDebugHistogram
    /\ ~AtomicUpdate(kernel)
    /\ pc[t] = "loop"
    /\ i[t] < Len(x)
    /\ BinInRange(CurrentBin(t), Len(histogram_out))
    /\ reg' = [reg EXCEPT ![t] = histogram_out[CurrentBin(t) + 1]]
    /\ pc' = [pc EXCEPT ![t] = "loaded"]
    /\ UNCHANGED <<hostVars, launchVars, i, counterVars, addVars, histVars>>

\* histogram_out[bin_number] += 1, second half: store the loaded count + 1
HistStore(t) ==
    /\ IsDebugHistogram
    /\ ~AtomicUpdate(kernel)
    /\ pc[t] = "loaded"
    /\ histogram_out' = [histogram_out EXCEPT ![CurrentBin(t) + 1] = reg[t] + 1]
    /\ i' = [i EXCEPT ![t] = @ + gridsize]
    /\ pc' = [pc EXCEPT ![t] = "loop"]
    /\ UNCHANGED <<hostVars, launchVars, reg, counterVars, addVars, xmin, xmax>>

\* an iteration of the non-atomic kernel whose bin is out of range: no update
HistSkip(t) ==
    /\ IsDebugHistogram
    /\ ~AtomicUpdate(kernel)
    /\ pc[t] = "loop"
    /\ i[t] < Len(x)
    /\ ~BinInRange(CurrentBin(t), Len(histogram_out))
    /\ i' = [i EXCEPT ![t] = @ + gridsize]
    /\ UNCHANGED <<hostVars, launchVars, pc, reg, counterVars, addVars, histVars>>

\* range(start, x.shape[0], stride) is exhausted: the thread returns
HistExit(t) ==
    /\ IsDebugHistogram
    /\ pc[t] = "loop"
    /\ i[t] >= Len(x)
    /\ pc' = [pc EXCEPT ![t] = "done"]
    /\ UNCHANGED <<hostVars, launchVars, i, reg, counterVars, addVars, histVars>>

\* sample values for the kernel that adds xmin: with xmin = -4, xmax = 4 the
\* value -1 is out of range, 4 and 6 share bin 0 of 2 and differ in 10 bins
XDebugVals == {-1, 4, 6}

\* histogram_out = np.zeros(nbins); histogram[B, T](x, xmin, xmax, histogram_out)
DebugHistogramInit ==
    /\ kernel \in {"histogram", "histogram_nonatomic"}
    /\ LaunchConfig
    /\ NoHostProgram
    /\ \E n \in 0 .. MaxLen : x \in [1 .. n -> XDebugVals]
    /\ xmin = -4
    /\ xmax = 4
    /\ \E nbins \in NBinsChoices : histogram_out = [b \in 1 .. nbins |-> 0]
    /\ pc = [t \in Threads |-> "loop"]
    /\ i = [t \in Threads |-> grid(t)]
    /\ reg = [t \in Threads |-> 0]
    /\ accesses = [t \in Threads |-> 0]
    /\ global_counter = 0
    /\ y = <<>>
    /\ out = <<>>
    /\ writes = <<>>

DebugHistogramNext ==
    \/ \E t \in Threads : HistIterateAtomic(t)
    \/ \E t \in Threads : HistLoad(t)
    \/ \E t \in Threads : HistStore(t)
    \/ \E t \in Threads : HistSkip(t)
    \/ \E t \in Threads : HistExit(t)

SpecDebugHistogram == DebugHistogramInit /\ [][DebugHistogramNext]_vars

RECURSIVE SumSeq(_)
\* histogram_out.sum()
SumSeq(h) == IF h = <<>> THEN 0 ELSE h[1] + SumSeq(Tail(h))

\* the inputs for which the kernel finds its bin number in range
InRangeInputs ==
    {k \in 1 .. Len(x) :
        BinInRange(BinNumberDebug(x[k], xmin, xmax, Len(histogram_out)),
                   Len(histogram_out))}

----------------------------------------------------------------------------
(* Kernel synchronization: the host launches add_kernel on device arrays,
   calls cuda.synchronize() and copies out_device back, in any order (cells
   are run by hand).  As the notebook states: a launch on device arrays
   returns immediately; kernels launched in sequence are queued and run one
   after another; only a host<->device copy or cuda.synchronize() makes the
   host wait until the previously queued kernels are complete. *)

\* largest number of kernel launches of one run
MaxLaunches == 2

\* state of a queued operation at the moment the call that issued it returns
AsyncReturnState == "pending"

\* the device has completed everything that was queued
DeviceIdle == queue = <<>>

\* add_kernel[blocks_per_grid, threads_per_block](x_device, y_device, out_device)
HostLaunch ==
    /\ hpc \in {"ready", "launch", "synchronize", "copy_to_host"}
    /\ launched < MaxLaunches
    /\ launched' = launched + 1
    /\ queue' = Append(queue, [op |-> "kernel", id |-> launched + 1])
    /\ atReturn' = atReturn \cup {<<"launch", AsyncReturnState>>}
    /\ hpc' = "launch"
    /\ UNCHANGED <<extVars, launchVars, pc, i, reg, counterVars, addVars, histVars,
                   executing, kdone, completed, streamVars>>

\* a cuda.synchronize() that returns at once
HostSynchronize_mut ==
    /\ hpc \in {"ready", "launch", "synchronize", "copy_to_host"}
    /\ hpc' = "synchronize"
    /\ atReturn' = atReturn \cup {<<"synchronize", "complete">>}
    /\ UNCHANGED <<extVars, launchVars, pc, i, reg, counterVars, addVars, histVars,
                   queueVars, streamVars>>

\* cuda.synchronize(): returns once the device is idle
HostSynchronize ==
    /\ hpc \in {"ready", "launch", "synchronize", "copy_to_host"}
    /\ DeviceIdle
    /\ hpc' = "synchronize"
    /\ atReturn' = atReturn \cup {<<"synchronize", "complete">>}
    /\ UNCHANGED <<extVars, launchVars, pc, i, reg, counterVars, addVars, histVars,
                   queueVars, streamVars>>

\* out_device.copy_to_host(): waits for the queued kernels, then copies
HostCopyToHost ==
    /\ hpc \in {"ready", "launch", "synchronize", "copy_to_host"}
    /\ DeviceIdle
    /\ a' = out
    /\ hpc' = "copy_to_host"
    /\ atReturn' = atReturn \cup {<<"copy_to_host", "complete">>}
    /\ UNCHANGED <<extVars, launchVars, pc, i, reg, counterVars, addVars, histVars,
                   queueVars, d_a, startEv, stopEv, counter>>

\* the driver starts the oldest queued kernel: its threads enter the body
DeviceDispatch ==
    /\ queue # <<>>
    /\ executing = 0
    /\ executing' = Head(queue).id
    /\ pc' = [t \in Threads |-> "loop"]
    /\ i' = [t \in Threads |-> grid(t)]
    /\ writes' = [k \in 1 .. Len(x) |-> <<>>]
    /\ accesses' = [t \in Threads |-> 0]
    /\ UNCHANGED <<extVars, launchVars, reg, counterVars, x, y, out, histVars, hpc,
                   queue, kdone, launched, completed, atReturn, streamVars>>

\* every thread of the running kernel has returned: the kernel is complete
DeviceRetire ==
    /\ executing # 0
    /\ AllDone
    /\ queue' = Tail(queue)
    /\ executing' = 0
    /\ completed' = completed + 1
    /\ pc' = [t \in Threads |-> "idle"]
    /\ UNCHANGED <<extVars, launchVars, i, reg, counterVars, addVars, histVars, hpc,
                   kdone, launched, atReturn, streamVars>>

\* x = np.arange(n); y = 2 * x; x_device, y_device = cuda.to_device(...);
\* out_device = cuda.device_array_like(x)
SyncInit ==
    /\ kernel = "add_kernel"
    /\ LaunchConfig
    /\ \E n \in 0 .. MaxLen :
        /\ x = [k \in 1 .. n |-> k - 1]
        /\ y = [k \in 1 .. n |-> 2 * (k - 1)]
        /\ \E g \in OutGarbage : out = [k \in 1 .. n |-> g]
        /\ writes = [k \in 1 .. n |-> <<>>]
    /\ pc = [t \in Threads |-> "idle"]
    /\ i = [t \in Threads |-> 0]
    /\ reg = [t \in Threads |-> 0]
    /\ accesses = [t \in Threads |-> 0]
    /\ global_counter = 0
    /\ xmin = 0
    /\ xmax = 0
    /\ histogram_out = <<>>
    /\ hpc = "ready"
    /\ queue = <<>>
    /\ executing = 0
    /\ kdone = {}
    /\ launched = 0
    /\ completed = 0
    /\ atReturn = {}
    /\ a = <<>>
    /\ d_a = <<>>
    /\ startEv = "unrecorded"
    /\ stopEv = "unrecorded"
    /\ counter = 0
    /\ NoExtras

SyncNext ==
    \/ HostLaunch
    \/ HostSynchronize
    \/ HostCopyToHost
    \/ DeviceDispatch
    \/ \E t \in Threads : AddIterate(t)
    \/ \E t \in Threads : AddExit(t)
    \/ DeviceRetire

SpecSync == SyncInit /\ [][SyncNext]_vars

----------------------------------------------------------------------------
(* Data movement with streams, and timing with events (porting notebook).
   hpc names the line of the notebook the host is about to execute.
   Operations issued with the stream argument are queued and return at once;
   the device completes them in issue order.  d_a.copy_to_host(a) is issued
   without the stream argument: it is a synchronous copy, which waits for the
   work queued before it and returns when the data is in a. *)

\* value = 26
value == 26

\* largest number of iterations of the Stage 2 loop that is counted
MaxSpin == 2

\* <<n, nthreads>>: n is a multiple of nthreads, as 16 * 1024 * 1024 is of 512
StreamSizes == {<<1, 1>>, <<2, 1>>, <<2, 2>>, <<4, 2>>}

\* what cuda.device_array_like(a, stream) may hold before it is written
DeviceGarbage == {0, 7}

\* stop.query(): the event has completed
query(ev) == ev = "complete"

\* the operation at the head of the stream
HeadOp == IF queue = <<>> THEN "none" ELSE Head(queue).op

\* increment_kernel[nblocks, nthreads, stream](d_a, -value)
StreamWarmup1 ==
    /\ hpc = "L454"
    /\ queue' = Append(queue, [op |-> "kernel", arg |-> -value])
    /\ launched' = launched + 1
    /\ hpc' = "L455"
    /\ UNCHANGED <<extVars, launchVars, pc, i, reg, counterVars, addVars, histVars,
                   executing, kdone, completed, atReturn, streamVars>>

\* increment_kernel[nblocks, nthreads, stream](d_a, value)
StreamWarmup2 ==
    /\ hpc = "L455"
    /\ queue' = Append(queue, [op |-> "kernel", arg |-> value])
    /\ launched' = launched + 1
    /\ hpc' = "L476"
    /\ UNCHANGED <<extVars, launchVars, pc, i, reg, counterVars, addVars, histVars,
                   executing, kdone, completed, atReturn, streamVars>>

\* Stage 1: cuda.synchronize()
StreamSynchronize ==
    /\ hpc = "L476"
    /\ DeviceIdle
    /\ hpc' = "L478"
    /\ UNCHANGED <<extVars, launchVars, pc, i, reg, counterVars, addVars, histVars,
                   queueVars, atReturn, streamVars>>

\* start.record(stream=stream)
StartRecord ==
    /\ hpc = "L478"
    /\ startEv' = "pending"
    /\ queue' = Append(queue, [op |-> "record", arg |-> "start"])
    /\ hpc' = "L479"
    /\ UNCHANGED <<extVars, launchVars, pc, i, reg, counterVars, addVars, histVars,
                   executing, kdone, launched, completed, atReturn,
                   a, d_a, stopEv, counter>>

\* d_a.copy_to_device(a, stream=stream)
CopyToDevice ==
    /\ hpc = "L479"
    /\ queue' = Append(queue, [op |-> "h2d", arg |-> 0])
    /\ atReturn' = atReturn \cup {<<"copy_to_device", AsyncReturnState>>}
    /\ hpc' = "L480"
    /\ UNCHANGED <<extVars, launchVars, pc, i, reg, counterVars, addVars, histVars,
                   executing, kdone, launched, completed, streamVars>>

\* increment_kernel[nblocks, nthreads, stream](d_a, value)
LaunchIncrement ==
    /\ hpc = "L480"
    /\ queue' = Append(queue, [op |-> "kernel", arg |-> value])
    /\ launched' = launched + 1
    /\ atReturn' = atReturn \cup {<<"launch", AsyncReturnState>>}
    /\ hpc' = "L481"
    /\ UNCHANGED <<extVars, launchVars, pc, i, reg, counterVars, addVars, histVars,
                   executing, kdone, completed, streamVars>>

\* a synchronous copy that does not wait for the stream's queued work
SynchronousCopyReady_mut == TRUE

\* a synchronous copy starts when the work queued before it is complete
SynchronousCopyReady == queue = <<>>

\* d_a.copy_to_host(a): no stream argument, a synchronous copy
CopyToHost ==
    /\ hpc = "L481"
    /\ SynchronousCopyReady
    /\ a' = d_a
    /\ atReturn' = atReturn \cup {<<"copy_to_host", "complete">>}
    /\ hpc' = "L482"
    /\ UNCHANGED <<extVars, launchVars, pc, i, reg, counterVars, addVars, histVars,
                   queueVars, d_a, startEv, stopEv, counter>>

\* stop.record(stream=stream)
StopRecord ==
    /\ hpc = "L482"
    /\ stopEv' = "pending"
    /\ queue' = Append(queue, [op |-> "record", arg |-> "stop"])
    /\ hpc' = "L487"
    /\ UNCHANGED <<extVars, launchVars, pc, i, reg, counterVars, addVars, histVars,
                   executing, kdone, launched, completed, atReturn,
                   a, d_a, startEv, counter>>

\* Stage 2: while not stop.query(): counter += 1   (counted up to MaxSpin)
SpinIterate ==
    /\ hpc = "L487"
    /\ ~query(stopEv)
    /\ counter < MaxSpin
    /\ counter' = counter + 1
    /\ UNCHANGED <<extVars, launchVars, pc, i, reg, counterVars, addVars, histVars,
                   hpc, queueVars, atReturn, a, d_a, startEv, stopEv>>

\* stop.query() is true: the loop exits, gpu_time = start.elapsed_time(stop)
SpinExit ==
    /\ hpc = "L487"
    /\ query(stopEv)
    /\ hpc' = "L490"
    /\ UNCHANGED <<extVars, launchVars, pc, i, reg, counterVars, addVars, histVars,
                   queueVars, atReturn, streamVars>>

\* increment_kernel, thread i = cuda.grid(1): g_data[i] = g_data[i] + inc_value
increment_kernel(t) ==
    /\ HeadOp = "kernel"
    /\ t \notin kdone
    /\ d_a' = [d_a EXCEPT ![grid(t) + 1] = @ + Head(queue).arg]
    /\ kdone' = kdone \cup {t}
    /\ UNCHANGED <<extVars, launchVars, pc, i, reg, counterVars, addVars, histVars,
                   hpc, queue, executing, launched, completed, atReturn,
                   a, startEv, stopEv, counter>>

\* every thread of the kernel at the head of the stream has returned
IncrementRetire ==
    /\ HeadOp = "kernel"
    /\ kdone = Threads
    /\ queue' = Tail(queue)
    /\ kdone' = {}
    /\ completed' = completed + 1
    /\ UNCHANGED <<extVars, launchVars, pc, i, reg, counterVars, addVars, histVars,
                   hpc, executing, launched, atReturn, streamVars>>

\* the queued host-to-device copy runs: d_a receives the contents of a
DeviceCopy ==
    /\ HeadOp = "h2d"
    /\ d_a' = a
    /\ queue' = Tail(queue)
    /\ UNCHANGED <<extVars, launchVars, pc, i, reg, counterVars, addVars, histVars,
                   hpc, executing, kdone, launched, completed, atReturn,
                   a, startEv, stopEv, counter>>

\* a recorded event that leaves the stream without completing
DeviceRecord_mut ==
    /\ HeadOp = "record"
    /\ queue' = Tail(queue)
    /\ UNCHANGED <<extVars, launchVars, pc, i, reg, counterVars, addVars, histVars,
                   hpc, executing, kdone, launched, completed, atReturn,
                   streamVars>>

\* the stream reaches a recorded event: the event completes
DeviceRecord ==
    /\ HeadOp = "record"
    /\ startEv' = IF Head(queue).arg = "start" THEN "complete" ELSE startEv
    /\ stopEv' = IF Head(queue).arg = "stop" THEN "complete" ELSE stopEv
    /\ queue' = Tail(queue)
    /\ UNCHANGED <<extVars, launchVars, pc, i, reg, counterVars, addVars, histVars,
                   hpc, executing, kdone, launched, completed, atReturn,
                   a, d_a, counter>>

\* the setup cell: a[:] = 0, d_a = cuda.device_array_like(a, stream),
\* nblocks = n // nthreads, start = cuda.event(), stop = cuda.event()
StreamInit ==
    /\ kernel = "increment_kernel"
    /\ \E sz \in StreamSizes :
        /\ blockDim = sz[2]
        /\ gridDim = sz[1] \div sz[2]
        /\ a = [k \in 1 .. sz[1] |-> 0]
        /\ d_a \in [1 .. sz[1] -> DeviceGarbage]
    /\ pc = [t \in Threads |-> "idle"]
    /\ i = [t \in Threads |-> 0]
    /\ reg = [t \in Threads |-> 0]
    /\ accesses = [t \in Threads |-> 0]
    /\ global_counter = 0
    /\ x = <<>>
    /\ y = <<>>
    /\ out = <<>>
    /\ writes = <<>>
    /\ xmin = 0
    /\ xmax = 0
    /\ histogram_out = <<>>
    /\ hpc = "L454"
    /\ queue = <<>>
    /\ executing = 0
    /\ kdone = {}
    /\ launched = 0
    /\ completed = 0
    /\ atReturn = {}
    /\ startEv = "unrecorded"
    /\ stopEv = "unrecorded"
    /\ counter = 0
    /\ NoExtras

StreamHostNext ==
    \/ StreamWarmup1
    \/ StreamWarmup2
    \/ StreamSynchronize
    \/ StartRecord
    \/ CopyToDevice
    \/ LaunchIncrement
    \/ CopyToHost
    \/ StopRecord
    \/ SpinIterate
    \/ SpinExit

StreamDeviceNext ==
    \/ \E t \in Threads : increment_kernel(t)
    \/ IncrementRetire
    \/ DeviceCopy
    \/ DeviceRecord

StreamNext == StreamHostNext \/ StreamDeviceNext

SpecStream == StreamInit /\ [][StreamNext]_vars

\* the device keeps making progress and the host keeps running its program
FairSpecStream ==
    /\ StreamInit
    /\ [][StreamNext]_vars
    /\ WF_vars(StreamDeviceNext)
    /\ WF_vars(StreamHostNext)

----------------------------------------------------------------------------
(* The Reduce generator: sum_reduce = cuda.reduce(lambda a, b: a + b).
   The generated kernel is Numba's; as the notebook describes it, it applies
   the pairwise function to all elements of the input array and does not
   overwrite a device array it is called on.  It is modelled as combining
   two of the remaining partial results at a time, in any order, in a buffer
   of its own.  The elements of A are integer valued, as np.arange(1234) + 1
   is, so every partial sum is exact in float64. *)

\* the state of the kernel examples while a host-only example runs
NoKernelState ==
    /\ gridDim = 1
    /\ blockDim = 1
    /\ pc = [t \in Threads |-> "idle"]
    /\ i = [t \in Threads |-> 0]
    /\ reg = [t \in Threads |-> 0]
    /\ accesses = [t \in Threads |-> 0]
    /\ global_counter = 0
    /\ x = <<>>
    /\ y = <<>>
    /\ out = <<>>
    /\ writes = <<>>
    /\ xmin = 0
    /\ xmax = 0
    /\ histogram_out = <<>>
    /\ queue = <<>>
    /\ executing = 0
    /\ kdone = {}
    /\ launched = 0
    /\ completed = 0
    /\ atReturn = {}
    /\ a = <<>>
    /\ d_a = <<>>
    /\ startEv = "unrecorded"
    /\ stopEv = "unrecorded"
    /\ counter = 0

\* everything but the host program counter and the reduction example
notReduceVars == <<kernelVars, queueVars, atReturn, streamVars, viewVars,
                   allocVars, ufuncVars>>

\* sample elements of A
AVals == {1, 2, 5}

\* a pairwise function that drops its second argument
sum_reduce_mut(p, q) == p

\* def sum_reduce(a, b): return a + b
sum_reduce(p, q) == p + q

\* a reduction that keeps its partial results in the input array
InputAfterCombine_mut(arr, p, v) == [arr EXCEPT ![p] = v]

\* the input array after the kernel combined two partial results into v:
\* the kernel does not write to its input
InputAfterCombine(arr, p, v) == arr

\* sequence s without its element at position q
RemoveAt(s, q) == [k \in 1 .. Len(s) - 1 |-> IF k < q THEN s[k] ELSE s[k + 1]]

\* sum_reduce(A): the host array is transferred and the kernel starts
ReduceHostCall ==
    /\ hpc = "L656"
    /\ partials' = A
    /\ hpc' = "L656_run"
    /\ UNCHANGED <<notReduceVars, A, A_d, r, retval>>

\* r = cuda.device_array(1); sum_reduce(A, res=r): the kernel starts
ReduceHostCallRes ==
    /\ hpc = "L673"
    /\ r' \in DeviceGarbage
    /\ partials' = A
    /\ hpc' = "L673_run"
    /\ UNCHANGED <<notReduceVars, A, A_d, retval>>

\* A_d = cuda.to_device(A)
ReduceToDevice ==
    /\ hpc = "L690"
    /\ A_d' = A
    /\ hpc' = "L691"
    /\ UNCHANGED <<notReduceVars, A, r, partials, retval>>

\* sum_reduce(A_d, res=r): the kernel starts on the device array
ReduceDeviceCallRes ==
    /\ hpc = "L691"
    /\ partials' = A_d
    /\ hpc' = "L691_run"
    /\ UNCHANGED <<notReduceVars, A, A_d, r, retval>>

\* the kernel applies sum_reduce to two of the remaining partial results
ReduceCombine ==
    /\ hpc \in {"L656_run", "L673_run", "L691_run"}
    /\ \E p, q \in 1 .. Len(partials) :
        /\ p < q
        /\ LET v == sum_reduce(partials[p], partials[q])
           IN  /\ partials' = RemoveAt([partials EXCEPT ![p] = v], q)
               /\ A_d' = IF hpc = "L691_run"
                         THEN InputAfterCombine(A_d, p, v)
                         ELSE A_d
    /\ UNCHANGED <<notReduceVars, hpc, A, r, retval>>

\* one result is left and no res was given: it is transferred back and returned
ReduceReturn ==
    /\ hpc = "L656_run"
    /\ Len(partials) = 1
    /\ retval' = partials[1]
    /\ partials' = <<>>
    /\ hpc' = "L673"
    /\ UNCHANGED <<notReduceVars, A, A_d, r>>

\* one result is left and res was given: it is stored in res[0]
ReduceStore ==
    /\ hpc \in {"L673_run", "L691_run"}
    /\ Len(partials) = 1
    /\ r' = partials[1]
    /\ partials' = <<>>
    /\ hpc' = IF hpc = "L673_run" THEN "L690" ELSE "L707"
    /\ UNCHANGED <<notReduceVars, A, A_d, retval>>

\* A = np.arange(1234) + 1 (here: 1 .. MaxLen integer-valued elements)
ReduceInit ==
    /\ kernel = "sum_reduce"
    /\ NoKernelState
    /\ NoView
    /\ NoAlloc
    /\ NoUfunc
    /\ \E n \in 1 .. MaxLen : A \in [1 .. n -> AVals]
    /\ A_d = "none"
    /\ r = "none"
    /\ partials = <<>>
    /\ retval = "none"
    /\ hpc = "L656"

ReduceNext ==
    \/ ReduceHostCall
    \/ ReduceCombine
    \/ ReduceReturn
    \/ ReduceHostCallRes
    \/ ReduceStore
    \/ ReduceToDevice
    \/ ReduceDeviceCallRes

SpecReduce == ReduceInit /\ [][ReduceNext]_vars

----------------------------------------------------------------------------
(* CUDA Array Interface: x_cupy = cupy.asarray(x_numba) and add_one.
   Device memory is a map from pointers to buffers; an array object is the
   pointer of its data.  Means are recorded as sums over the array, the
   length being fixed.  x_cupy.mean() runs on the default stream, like the
   add_one launch before it, so it reads the array after the kernel. *)

\* device pointers
Pointers == 1 .. 2

\* everything but the host program counter, the launch and the view example
notViewVars == <<counterVars, y, out, writes, accesses, histVars, queueVars,
                 atReturn, streamVars, reduceVars, allocVars, ufuncVars>>

\* an asarray that copies the data into a buffer of its own
asarray_mut(m, p) == <<[m EXCEPT ![2] = m[p]], 2>>

\* cupy.asarray(x_numba): a view of x_numba's data, the same pointer;
\* gives the device memory and the pointer of the new array
asarray(m, p) == <<m, p>>

\* x_numba = cuda.to_device(x)
ViewToDevice ==
    /\ hpc = "L998"
    /\ mem' = [mem EXCEPT ![1] = x]
    /\ x_numba' = 1
    /\ hpc' = "L1015"
    /\ UNCHANGED <<notViewVars, launchVars, pc, i, reg, x, x_cupy, means>>

\* x_cupy = cupy.asarray(x_numba)
ViewAsArray ==
    /\ hpc = "L1015"
    /\ mem' = asarray(mem, x_numba)[1]
    /\ x_cupy' = asarray(mem, x_numba)[2]
    /\ hpc' = "L1017"
    /\ UNCHANGED <<notViewVars, launchVars, pc, i, reg, x, x_numba, means>>

\* x_cupy.mean(), once the kernels launched before it have finished
ViewMean ==
    /\ hpc \in {"L1017", "L1042"}
    /\ AllDone
    /\ means' = Append(means, SumSeq(mem[x_cupy]))
    /\ hpc' = "L1040"
    /\ UNCHANGED <<notViewVars, launchVars, pc, i, reg, x, mem, x_numba, x_cupy>>

\* add_one[1, 32](x_numba): a launch with a thread for every element
ViewLaunch ==
    /\ hpc = "L1040"
    /\ launched < MaxLaunches
    /\ \E g, b \in 1 .. MaxGridSize :
        /\ g * b <= MaxGridSize
        /\ g * b >= Len(x)
        /\ gridDim' = g
        /\ blockDim' = b
        /\ pc' = [t \in (0 .. g - 1) \X (0 .. b - 1) |-> "start"]
        /\ i' = [t \in (0 .. g - 1) \X (0 .. b - 1) |-> 0]
        /\ reg' = [t \in (0 .. g - 1) \X (0 .. b - 1) |-> 0]
    /\ launched' = launched + 1
    /\ hpc' = "L1042"
    /\ UNCHANGED <<kernel, counterVars, addVars, histVars, queue, executing,
                   kdone, completed, atReturn, streamVars, reduceVars,
                   viewVars, allocVars, ufuncVars>>

\* i = cuda.grid(1); if i < len(x): read x[i]
AddOneLoad(t) ==
    /\ kernel = "add_one"
    /\ pc[t] = "start"
    /\ grid(t) < Len(mem[x_numba])
    /\ i' = [i EXCEPT ![t] = grid(t)]
    /\ reg' = [reg EXCEPT ![t] = mem[x_numba][grid(t) + 1]]
    /\ pc' = [pc EXCEPT ![t] = "loaded"]
    /\ UNCHANGED <<notViewVars, launchVars, hpc, x, viewVars>>

\* x[i] += 1: write back
AddOneStore(t) ==
    /\ kernel = "add_one"
    /\ pc[t] = "loaded"
    /\ mem' = [mem EXCEPT ![x_numba][i[t] + 1] = reg[t] + 1]
    /\ pc' = [pc EXCEPT ![t] = "done"]
    /\ UNCHANGED <<notViewVars, launchVars, hpc, i, reg, x, x_numba, x_cupy,
                   means>>

\* i >= len(x): the thread does nothing
AddOneSkip(t) ==
    /\ kernel = "add_one"
    /\ pc[t] = "start"
    /\ grid(t) >= Len(mem[x_numba])
    /\ i' = [i EXCEPT ![t] = grid(t)]
    /\ pc' = [pc EXCEPT ![t] = "done"]
    /\ UNCHANGED <<notViewVars, launchVars, hpc, reg, x, viewVars>>

\* x = np.arange(10) (here: np.arange(n), n up to MaxLen)
ViewInit ==
    /\ kernel = "add_one"
    /\ gridDim = 1
    /\ blockDim = 1
    /\ pc = [t \in Threads |-> "done"]
    /\ i = [t \in Threads |-> 0]
    /\ reg = [t \in Threads |-> 0]
    /\ accesses = [t \in Threads |-> 0]
    /\ global_counter = 0
    /\ \E n \in 1 .. MaxLen : x = [k \in 1 .. n |-> k - 1]
    /\ y = <<>>
    /\ out = <<>>
    /\ writes = <<>>
    /\ xmin = 0
    /\ xmax = 0
    /\ histogram_out = <<>>
    /\ queue = <<>>
    /\ executing = 0
    /\ kdone = {}
    /\ launched = 0
    /\ completed = 0
    /\ atReturn = {}
    /\ a = <<>>
    /\ d_a = <<>>
    /\ startEv = "unrecorded"
    /\ stopEv = "unrecorded"
    /\ counter = 0
    /\ NoReduce
    /\ NoAlloc
    /\ NoUfunc
    /\ mem = [p \in Pointers |-> <<>>]
    /\ x_numba = 0
    /\ x_cupy = 0
    /\ means = <<>>
    /\ hpc = "L998"

ViewNext ==
    \/ ViewToDevice
    \/ ViewAsArray
    \/ ViewMean
    \/ ViewLaunch
    \/ \E t \in Threads : AddOneLoad(t)
    \/ \E t \in Threads : AddOneStore(t)
    \/ \E t \in Threads : AddOneSkip(t)

SpecView == ViewInit /\ [][ViewNext]_vars

----------------------------------------------------------------------------
(* MyFloatArray: allocates device memory when constructed and frees it when
   it is deleted.  cudaMalloc and cudaFree are the CUDA runtime's, called
   through ctypes: cudaMalloc returns 0 and stores a fresh pointer, or
   returns an error code and leaves the pointer NULL (0); cudaFree of NULL
   does nothing.  Python runs __del__ once for an object, when it is
   destroyed; that includes an object whose __init__ raised. *)

\* largest number of MyFloatArray objects created
MaxObjects == 2

\* FLOAT32_SIZE = 4
FLOAT32_SIZE == 4

\* return codes of cudaMalloc: cudaSuccess, two error codes
RetCodes == {0, 2, 999}

\* device addresses cudaMalloc can return; an address is free again after
\* cudaFree
Addresses == 1 .. MaxObjects

\* everything but the MyFloatArray example
notAllocVars == <<kernelVars, hpc, queueVars, atReturn, streamVars,
                  reduceVars, viewVars, ufuncVars>>

\* a test that only takes negative codes for errors
Raises_mut(ret) == ret < 0

\* if ret: raise RuntimeError(...)
Raises(ret) == ret # 0

\* a __del__ that frees nothing
MyFloatArray_del_mut(k, self) == <<>>

\* __del__: the runtime calls it makes, cudaFree(self._ptr)
MyFloatArray_del(k, self) ==
    <<[op |-> "cudaFree", obj |-> k, bytes |-> 0, ptr |-> self.ptr, ret |-> 0]>>

\* the pointers allocated after the runtime calls cs, made in turn
RECURSIVE HeapAfter(_, _)
HeapAfter(h, cs) ==
    IF cs = <<>> THEN h
    ELSE HeapAfter(IF cs[1].op = "cudaFree" THEN h \ {cs[1].ptr}
                   ELSE IF cs[1].ret = 0 THEN h \cup {cs[1].ptr} ELSE h,
                   Tail(cs))

\* arr = MyFloatArray(size): __init__ as a whole
MyFloatArray_init(size) ==
    /\ kernel = "MyFloatArray"
    /\ Len(objs) < MaxObjects
    /\ \E ret \in RetCodes :
       \E p \in (IF ret = 0 THEN Addresses \ heap ELSE {0}) :
        LET k == Len(objs) + 1
            alloc_size == size * FLOAT32_SIZE
            call == [op |-> "cudaMalloc", obj |-> k, bytes |-> alloc_size,
                     ptr |-> p, ret |-> ret]
        IN  /\ calls' = Append(calls, call)
            /\ heap' = HeapAfter(heap, <<call>>)
            /\ objs' = Append(objs,
                   [size |-> size, typestr |-> "f4", ptr |-> p, ret |-> ret,
                    raised |-> IF Raises(ret) THEN ret ELSE 0,
                    state |-> IF Raises(ret) THEN "failed" ELSE "live"])
    /\ UNCHANGED notAllocVars

\* object number k is destroyed (del arr, or the failed object is collected)
MyFloatArray_delete(k) ==
    /\ kernel = "MyFloatArray"
    /\ objs[k].state \in {"live", "failed"}
    /\ calls' = calls \o MyFloatArray_del(k, objs[k])
    /\ heap' = HeapAfter(heap, MyFloatArray_del(k, objs[k]))
    /\ objs' = [objs EXCEPT ![k].state = "deleted"]
    /\ UNCHANGED notAllocVars

AllocInit ==
    /\ kernel = "MyFloatArray"
    /\ NoKernelState
    /\ NoReduce
    /\ NoView
    /\ NoUfunc
    /\ hpc = "none"
    /\ objs = <<>>
    /\ heap = {}
    /\ calls = <<>>

AllocNext ==
    \/ \E size \in 1 .. MaxLen : MyFloatArray_init(size)
    \/ \E k \in 1 .. Len(objs) : MyFloatArray_delete(k)

SpecAlloc == AllocInit /\ [][AllocNext]_vars

\* the positions in the log of the calls of operation o made by object k
CallsOf(o, k) == {n \in 1 .. Len(calls) : calls[n].op = o /\ calls[n].obj = k}

----------------------------------------------------------------------------
(* zero_suppress: a CUDA ufunc, int32(int16, int32), applied to each element
   of the waveform with the scalar threshold broadcast. *)

\* int16 sample values, on both sides of the threshold and of zero
SampleVals == {-32768, -20, -3, 14, 15, 20}

\* thresholds (the notebook calls zero_suppress(waveform, 15))
Thresholds == {4, 15}

\* everything but the ufunc example
notUfuncVars == <<kernelVars, queueVars, atReturn, streamVars, reduceVars,
                  viewVars, allocVars>>

\* def zero_suppress(waveform_value, threshold); the int16 sample is widened
\* to int32 for the comparison and the result, which keeps its value
zero_suppress(waveform_value, thr) ==
    IF waveform_value < thr THEN 0 ELSE waveform_value

\* zero_suppress(waveform, 15): the ufunc applied to every element
ZeroSuppressCall ==
    /\ hpc = "L367"
    /\ result' = [k \in 1 .. Len(waveform) |->
                      zero_suppress(waveform[k], threshold)]
    /\ hpc' = "done"
    /\ UNCHANGED <<notUfuncVars, waveform, threshold>>

\* waveform = (...).astype(np.int16)
UfuncInit ==
    /\ kernel = "zero_suppress"
    /\ NoKernelState
    /\ NoReduce
    /\ NoView
    /\ NoAlloc
    /\ \E n \in 1 .. MaxLen : waveform \in [1 .. n -> SampleVals]
    /\ threshold \in Thresholds
    /\ result = "none"
    /\ hpc = "L367"

UfuncNext == ZeroSuppressCall

SpecUfunc == UfuncInit /\ [][UfuncNext]_vars

\* |v|
Abs(v) == IF v < 0 THEN -v ELSE v

----------------------------------------------------------------------------
(* C1: thread_counter_safe launched with B blocks of T threads on a counter
   initialised to 0 leaves the counter equal to B*T once every thread has
   finished, in every interleaving; and while threads are still running the
   counter equals the number of threads that have finished. *)
C1_SafeCounterExact ==
    kernel = "thread_counter_safe" =>
        /\ global_counter = Cardinality({t \in Threads : pc[t] = "done"})
        /\ AllDone => global_counter = gridDim * blockDim

\* several threads of several blocks have all finished their atomic add
C1_Witness ==
    /\ kernel = "thread_counter_safe"
    /\ gridDim >= 2
    /\ blockDim >= 2
    /\ AllDone
    /\ global_counter = gridDim * blockDim

(* C2: with thread_counter_race_condition the final counter lies between 1
   and N = B*T in every interleaving (and it can be less than N: the witness
   is a finished launch of N >= 2 threads that lost an update). *)
C2_RaceCounterRange ==
    (kernel = "thread_counter_race_condition" /\ AllDone) =>
        /\ global_counter >= 1
        /\ global_counter <= gridDim * blockDim

\* a finished racy launch of N >= 2 threads whose counter is less than N
C2_Witness ==
    /\ kernel = "thread_counter_race_condition"
    /\ gridDim * blockDim >= 2
    /\ AllDone
    /\ global_counter < gridDim * blockDim

(* C5: after the grid-stride add kernel has completed, out[i] = x[i] + y[i]
   for every i in [0, n), for every launch configuration with at least one
   block and one thread per block and every input length n. *)
C5_AddKernelResult ==
    (kernel = "add_kernel" /\ AllDone) =>
        \A k \in 1 .. Len(x) : out[k] = x[k] + y[k]

\* a finished launch of several blocks whose input is longer than the grid
C5_Witness ==
    /\ kernel = "add_kernel"
    /\ AllDone
    /\ gridDim >= 2
    /\ Len(x) > gridDim * blockDim
    /\ \A k \in 1 .. Len(x) : out[k] = x[k] + y[k]

(* C6: in the grid-stride add kernel every output index is stored to at most
   once; once the kernel has completed each index i in [0, n) was stored
   exactly once, by the thread whose start index is i mod stride; a thread
   whose start index is >= n never accesses an array element. *)
C6_ExclusiveWrites ==
    kernel = "add_kernel" =>
        /\ \A k \in 1 .. Len(x) : Len(writes[k]) <= 1
        /\ AllDone =>
            \A k \in 1 .. Len(x) :
                /\ Len(writes[k]) = 1
                /\ LET t == writes[k][1]
                   IN  t[2] + t[1] * blockDim = (k - 1) % (blockDim * gridDim)
        /\ \A t \in Threads :
            (t[2] + t[1] * blockDim >= Len(x)) => accesses[t] = 0

\* a finished launch of several blocks in which every element was stored once
\* and some thread, starting beyond the input, accessed nothing
C6_Witness ==
    /\ kernel = "add_kernel"
    /\ AllDone
    /\ gridDim >= 2
    /\ Len(x) >= 2
    /\ \A k \in 1 .. Len(x) : Len(writes[k]) = 1
    /\ \E t \in Threads : t[2] + t[1] * blockDim >= Len(x) /\ accesses[t] = 0

(* C3: launched with nblocks = len(x) // nthread + 1 blocks of nthread
   threads on a zero-initialised histogram_out, cuda_histogram leaves, in
   every interleaving of its threads, exactly the bin counts cpu_histogram
   computes sequentially on the same input. *)
C3_HistogramsAgree ==
    (kernel = "cuda_histogram" /\ AllDone) =>
        histogram_out =
            cpu_histogram(x, xmin, xmax, [b \in 1 .. Len(histogram_out) |-> 0])

\* several blocks have finished and two inputs were counted in the same bin
C3_Witness ==
    /\ kernel = "cuda_histogram"
    /\ AllDone
    /\ gridDim >= 2
    /\ \E b \in 1 .. Len(histogram_out) : histogram_out[b] >= 2
    /\ \E k \in 1 .. Len(x) :
        ~BinInRange(BinNumber(x[k], xmin, xmax, Len(histogram_out)), Len(histogram_out))

(* C4: in the grid-stride histogram kernel, once every thread has finished,
   the sum of histogram_out equals the number of inputs whose bin number the
   kernel finds in range when bins are updated with cuda.atomic.add; with
   the non-atomic histogram_out[bin_number] += 1 the sum is never larger
   than that number (and can be smaller: the witness). *)
C4_HistogramSum ==
    (IsDebugHistogram /\ AllDone) =>
        /\ kernel = "histogram" =>
               SumSeq(histogram_out) = Cardinality(InRangeInputs)
        /\ kernel = "histogram_nonatomic" =>
               SumSeq(histogram_out) <= Cardinality(InRangeInputs)

\* a finished non-atomic launch that lost an update to a bin two threads shared
C4_Witness ==
    /\ kernel = "histogram_nonatomic"
    /\ AllDone
    /\ SumSeq(histogram_out) < Cardinality(InRangeInputs)

(* C7: a kernel launch on device arrays returns before the kernel has
   completed; kernels launched in sequence run one after another in launch
   order (a kernel runs only when every kernel launched before it is
   complete); cuda.synchronize() and a device-to-host copy return only after
   every previously queued kernel has completed, so the copy holds the
   kernel's result. *)
C7_LaunchAndSynchronize ==
    hpc \in {"ready", "launch", "synchronize", "copy_to_host"} =>
        /\ <<"launch", "complete">> \notin atReturn
        /\ executing # 0 => executing = completed + 1
        /\ completed <= launched
        /\ hpc \in {"synchronize", "copy_to_host"} =>
               /\ queue = <<>>
               /\ completed = launched
        /\ (hpc = "copy_to_host" /\ launched >= 1) =>
               \A k \in 1 .. Len(x) : a[k] = x[k] + y[k]

\* two kernels were launched back to back, both ran, and the copy has returned
C7_Witness ==
    /\ hpc = "copy_to_host"
    /\ launched = 2
    /\ completed = 2
    /\ Len(x) >= 2
    /\ <<"launch", "pending">> \in atReturn
    /\ <<"synchronize", "complete">> \in atReturn

(* C8: each of the host-to-device copy, the increment_kernel launch and the
   device-to-host copy of Stage 1 returns to the CPU before its operation
   has completed on the device. *)
C8_Stage1Asynchronous ==
    kernel = "increment_kernel" =>
        \A c \in {"copy_to_device", "launch", "copy_to_host"} :
            <<c, "complete">> \notin atReturn

(* C9: if the device keeps making progress the Stage 2 loop terminates;
   stop.query() is true only when every operation issued on the stream
   before stop.record (start event, copy, kernels) has completed, and once
   true it stays true. *)
C9_SpinLoopTerminates ==
    /\ <>(hpc = "L490")
    /\ [](query(stopEv) =>
            /\ queue = <<>>
            /\ completed = launched
            /\ startEv = "complete")
    /\ [][query(stopEv) => query(stopEv')]_vars

\* the loop has exited after the host counted at least one iteration
C9_Witness ==
    /\ hpc = "L490"
    /\ counter >= 1
    /\ query(stopEv)

(* C10: when the Stage 2 loop exits, every element of the host array a,
   which was all zeros, equals value: the copy to d_a, the increment and the
   copy back took effect in issue order. *)
C10_StreamResult ==
    hpc = "L490" => \A k \in 1 .. Len(a) : a[k] = value

\* the loop has exited on an array of several elements run by several blocks
C10_Witness ==
    /\ hpc = "L490"
    /\ Len(a) >= 2
    /\ gridDim >= 2
    /\ \A k \in 1 .. Len(a) : a[k] = value

(* C11: calling sum_reduce on the device array A_d does not overwrite it:
   while and after sum_reduce(A_d, res=r) runs, every element of A_d equals
   the value copied from the host array A, and the value sum_reduce(A)
   returned is unchanged; only r changes. *)
C11_ReduceKeepsInput ==
    (kernel = "sum_reduce" /\ hpc \in {"L691", "L691_run", "L707"}) =>
        (A_d = A /\ retval = SumSeq(A))

\* sum_reduce(A_d, res=r) has finished on an array of several elements
C11_Witness ==
    /\ kernel = "sum_reduce"
    /\ hpc = "L707"
    /\ Len(A) >= 2
    /\ A_d = A
    /\ r = SumSeq(A)

(* C12: sum_reduce applies a + b to all elements of the input: whatever
   order the pairs are combined in, the value it returns is the sum of every
   element, and the value it writes to res equals the value returned when no
   res is given. *)
C12_ReduceSumsAll ==
    kernel = "sum_reduce" =>
        /\ hpc \notin {"L656", "L656_run"} => retval = SumSeq(A)
        /\ hpc \in {"L690", "L691", "L691_run", "L707"} => r = retval
        /\ hpc = "L707" => r = SumSeq(A)

\* both calls have finished on an array of three or more elements
C12_Witness ==
    /\ kernel = "sum_reduce"
    /\ hpc = "L690"
    /\ Len(A) >= 3
    /\ retval = SumSeq(A)
    /\ r = retval

(* C13: x_cupy = cupy.asarray(x_numba) shares x_numba's device data: at
   every point of every sequence of add_one launches on x_numba, the
   elements read through x_cupy equal those of x_numba, and each mean taken
   after an add_one launch is exactly 1 larger than the one before it (the
   sum is larger by the length). *)
C13_ViewSharesData ==
    (kernel = "add_one" /\ x_cupy # 0) =>
        /\ mem[x_cupy] = mem[x_numba]
        /\ \A k \in 1 .. Len(means) :
               means[k] = SumSeq(x) + (k - 1) * Len(x)

\* the mean was taken before and after an add_one launch on several elements
C13_Witness ==
    /\ kernel = "add_one"
    /\ x_cupy # 0
    /\ Len(x) >= 2
    /\ Len(means) >= 2
    /\ means[2] = means[1] + Len(x)
    /\ mem[x_cupy] = [k \in 1 .. Len(x) |-> x[k] + 1]

(* C14: for every successfully constructed MyFloatArray there is exactly one
   cudaMalloc, of size * 4 bytes, made at construction, and exactly one
   cudaFree, of the pointer that cudaMalloc returned, made at deletion: the
   pointer is not freed before the object is deleted and not freed twice. *)
C14_OneMallocOneFree ==
    kernel = "MyFloatArray" =>
        \A k \in 1 .. Len(objs) :
            objs[k].ret = 0 =>
                /\ Cardinality(CallsOf("cudaMalloc", k)) = 1
                /\ \A n \in CallsOf("cudaMalloc", k) :
                       /\ calls[n].bytes = objs[k].size * 4
                       /\ calls[n].ptr = objs[k].ptr
                       /\ \A f \in CallsOf("cudaFree", k) : n < f
                /\ Cardinality(CallsOf("cudaFree", k))
                       = (IF objs[k].state = "deleted" THEN 1 ELSE 0)
                /\ \A f \in CallsOf("cudaFree", k) : calls[f].ptr = objs[k].ptr
                /\ objs[k].state = "live" =>
                       /\ objs[k].ptr \in heap
                       /\ \A j \in 1 .. Len(objs) :
                              (j # k /\ objs[j].state = "live")
                                  => objs[j].ptr # objs[k].ptr

\* an object was constructed and deleted, and a later object got its address
C14_Witness ==
    /\ kernel = "MyFloatArray"
    /\ Len(objs) = 2
    /\ objs[1].ret = 0
    /\ objs[1].state = "deleted"
    /\ objs[2].ret = 0
    /\ objs[2].state = "live"
    /\ objs[2].ptr = objs[1].ptr
    /\ Len(calls) = 3

(* C15: construction fails loudly: when cudaMalloc returns a non-zero code,
   __init__ raises RuntimeError carrying that code and no object is returned
   to the caller; when it returns 0 no error is raised. *)
C15_ConstructionFailsLoudly ==
    kernel = "MyFloatArray" =>
        \A k \in 1 .. Len(objs) :
            /\ objs[k].ret # 0 =>
                   (objs[k].raised = objs[k].ret /\ objs[k].state # "live")
            /\ objs[k].ret = 0 =>
                   (objs[k].raised = 0 /\ objs[k].state # "failed")

\* one construction failed and one succeeded
C15_Witness ==
    /\ kernel = "MyFloatArray"
    /\ \E k \in 1 .. Len(objs) :
           objs[k].ret = 999 /\ objs[k].raised = 999 /\ objs[k].state = "failed"
    /\ \E k \in 1 .. Len(objs) :
           objs[k].ret = 0 /\ objs[k].raised = 0 /\ objs[k].state = "live"

(* C16: zero_suppress forces all sample values below a certain absolute
   magnitude to zero: for every int16 sample v and threshold t, the result
   is 0 when |v| < t and v otherwise, for each element of the waveform.
   The code compares v itself with t, so a sample v <= -t comes out 0. *)
C16_ZeroSuppressMagnitude ==
    (kernel = "zero_suppress" /\ hpc = "done") =>
        \A k \in 1 .. Len(waveform) :
            result[k] = (IF Abs(waveform[k]) < threshold
                         THEN 0 ELSE waveform[k])

====
